---- MODULE Spec2Model ----
(***************************************************************************)
(* Aggregated limit order book: the bounded sorted-array book              *)
(* (ArrayOrderbook<N, V>) and the ordered-map book (BTreeOrderBook<V>),    *)
(* driven in lock step by one stream of events.                            *)
(*                                                                         *)
(* Decimal values (prices, sizes) are modelled by their raw integer value. *)
(* Buffer slots keep the source's 0-based indices.                         *)
(*                                                                         *)
(* Specifications:                                                         *)
(*   Spec             any event: kind, side, price, size, timestamp, id    *)
(*   SpecSequenced    a sequenced feed quoting one price                   *)
(*   SpecUnsequenced  an unsequenced feed with one timestamp               *)
(*   SpecDeep         a book of capacity 33 that has taken 32 levels on    *)
(*                    one side, then an unsequenced feed                   *)
(*   SpecSearch       find_index on sorted buffers of 0 to 33 levels       *)
(***************************************************************************)
EXTENDS Integers, Sequences, FiniteSets, TLC

(***************************************************************************)
(* Bounds of the model.                                                    *)
(***************************************************************************)
\* capacity N of ArrayOrderbook<N, V> (a const generic of the source)
N == 2
\* event prices are 1..MaxPrice
MaxPrice == 3
\* event sizes are 0..MaxSize
MaxSize == 3
\* event timestamps are 0..MaxTs
MaxTs == 1
\* event sequence ids are 0..MaxSeq
MaxSeq == 2
\* number of process calls in one run
MaxEvents == 3
\* width in bits of the raw value of a decimal (i64 in the source)
V_BITS == 15
\* number of fractional digits of a FixedDecimal (13 in the source, where the
\* raw value has 64 bits)
SCALE == 1
\* number of process calls made on a deep book once it is filled
MaxDeepEvents == 2

(***************************************************************************)
(* DecimalType constants.                                                  *)
(***************************************************************************)
ZERO == 0
V_MAX == 2^(V_BITS - 1) - 1
V_MIN == -(2^(V_BITS - 1))

(***************************************************************************)
(* FixedDecimal: a decimal is its raw value, an integer of V_BITS bits.    *)
(* An operation returns Value(raw) or, when it panics, Panic.              *)
(***************************************************************************)
SCALE_FACTOR == 10^SCALE
ONE == SCALE_FACTOR
TWO == 2 * SCALE_FACTOR
ONE_HUNDRED == 100 * SCALE_FACTOR

Value(raw) == [panic |-> FALSE, raw |-> raw]
Panic == [panic |-> TRUE, raw |-> 0]

\* integer arithmetic of the machine: two's complement wrap-around, saturation,
\* and the division and remainder that truncate toward zero
wrapping(x) == ((x - V_MIN) % (2^V_BITS)) + V_MIN
saturating(x) == IF x > V_MAX THEN V_MAX ELSE IF x < V_MIN THEN V_MIN ELSE x
Abs(x) == IF x < 0 THEN -x ELSE x
TruncDiv(a, b) ==
    IF (a >= 0) = (b > 0) THEN Abs(a) \div Abs(b) ELSE -(Abs(a) \div Abs(b))
TruncRem(a, b) == a - b * TruncDiv(a, b)

\* raw & VALUE_MASK: the raw value without its sign bit
value_bits(raw) == raw % (2^(V_BITS - 1))

is_zero(raw) == value_bits(raw) = 0

\* the builds of the crate: Add has one body for x86_64 and one for the rest
TargetArch == {"x86_64", "other"}

\* POW10_TABLE holds every power of ten that fits the raw value
POW10_LEN == Cardinality({n \in 0..9 : 10^n <= V_MAX})

power_of_ten(n) == IF n < POW10_LEN THEN 10^n ELSE V_MAX

\* rescale that rounds toward minus infinity
rescale_floor(raw, scale) ==
    IF scale >= SCALE THEN raw
    ELSE LET divisor == power_of_ten(SCALE - scale)
         IN  (raw \div divisor) * divisor

rescale(raw, scale) ==
    IF scale >= SCALE THEN raw
    ELSE LET divisor == power_of_ten(SCALE - scale)
         IN  TruncDiv(raw, divisor) * divisor

\* checked_mul, then the sign: None saturates to MIN or MAX
checked_mul_signed(magnitude, factor, is_negative) ==
    IF magnitude * factor > V_MAX \/ magnitude * factor < V_MIN
    THEN (IF is_negative THEN V_MIN ELSE V_MAX)
    ELSE (IF is_negative THEN -(magnitude * factor) ELSE magnitude * factor)

\* 10_i64.pow(scale) beyond the table overflows: a panic when the build checks
\* overflow, the wrapped product when it does not
with_exponent(value, exponent, overflow_checks) ==
    LET adjustment == SCALE + exponent
        abs_value == value_bits(value)
        is_negative == value < 0
        signed(result) == IF is_negative THEN -result ELSE result
    IN  IF value = 0 THEN Value(ZERO)
        ELSE IF adjustment = 0 THEN Value(value)
        ELSE IF exponent < 0
        THEN LET scale == -exponent
                 divisor == IF scale <= POW10_LEN + 1 THEN power_of_ten(scale)
                            ELSE wrapping(10^scale)
             IN  IF scale > POW10_LEN + 1 /\ (overflow_checks \/ divisor = 0) THEN Panic
                 ELSE LET divided == TruncDiv(abs_value, divisor)
                      IN  IF adjustment >= 0
                          THEN Value(checked_mul_signed(divided, power_of_ten(adjustment),
                                                        is_negative))
                          ELSE Value(signed(TruncDiv(divided, power_of_ten(-adjustment))))
        ELSE IF adjustment > 0
        THEN Value(checked_mul_signed(abs_value, power_of_ten(adjustment), is_negative))
        ELSE Value(signed(TruncDiv(abs_value, power_of_ten(-adjustment))))

FixedDecimal_add(arch, a, b) ==
    IF arch = "x86_64" THEN wrapping(a + b) ELSE saturating(a + b)

FixedDecimal_sub(a, b) == saturating(a - b)

FixedDecimal_mul(a, b) ==
    IF is_zero(a) \/ is_zero(b) THEN ZERO
    ELSE IF a = SCALE_FACTOR THEN b
    ELSE IF b = SCALE_FACTOR THEN a
    ELSE saturating(TruncDiv(a * b, SCALE_FACTOR))

FixedDecimal_div(a, b) ==
    IF is_zero(b) THEN Panic
    ELSE IF is_zero(a) THEN Value(ZERO)
    ELSE IF b = SCALE_FACTOR THEN Value(a)
    ELSE Value(saturating(TruncDiv(a * SCALE_FACTOR, b)))

\* the machine remainder overflows, and panics, on MIN % -1
FixedDecimal_rem(a, b) ==
    IF is_zero(b) THEN Panic
    ELSE IF a = V_MIN /\ b = -1 THEN Panic
    ELSE Value(TruncRem(a, b))

(***************************************************************************)
(* Option<T>: None is the empty tuple, Some(x) the one-element tuple.      *)
(***************************************************************************)
None == <<>>
Some(x) == <<x>>
IsSome(o) == o # <<>>
Unwrap(o) == o[1]

(***************************************************************************)
(* Level, Side, EventKind, Event.                                          *)
(***************************************************************************)
Level_new(price, size) == [price |-> price, size |-> size]

Level_bound(is_min) == [price |-> IF is_min THEN V_MIN ELSE V_MAX, size |-> ZERO]

Side == {"Buy", "Sell"}

is_buy(side) == side = "Buy"

EventKind == {"Trade", "BBO", "L2"}

Event_new(kind, side, price, size, timestamp) ==
    [kind |-> kind, side |-> side, price |-> price, size |-> size,
     timestamp |-> timestamp, sequence_id |-> 0]

with_sequence_id(event, sequence_id) == [event EXCEPT !.sequence_id = sequence_id]

\* to_level with the two fields of the level exchanged
to_level_swapped(event) == [price |-> event.size, size |-> event.price]

to_level(event) == [price |-> event.price, size |-> event.size]

(***************************************************************************)
(* MetricsCalculator::calculate_metrics_internal.  The result is the       *)
(* OrderbookMetrics record, or MetricsPanic when a division panics.        *)
(***************************************************************************)
\* Sum for FixedDecimal: fold(ZERO, add)
RECURSIVE FixedDecimal_sum(_, _)
FixedDecimal_sum(arch, values) ==
    IF values = <<>> THEN ZERO
    ELSE FixedDecimal_add(arch, FixedDecimal_sum(arch, SubSeq(values, 1, Len(values) - 1)),
                          values[Len(values)])

\* sizes.iter().zip(prices.iter()).map(|(size, price)| size * price).sum()
zip_value(arch, sizes, prices) ==
    FixedDecimal_sum(arch, [i \in 1..(IF Len(sizes) <= Len(prices) THEN Len(sizes) ELSE Len(prices))
                               |-> FixedDecimal_mul(sizes[i], prices[i])])

MetricsPanic == [panic |-> TRUE]

calculate_metrics_internal(arch, best_bid, best_ask, bid_sizes, ask_sizes, bid_prices, ask_prices) ==
    LET two_sided == IsSome(best_bid) /\ IsSome(best_ask)
        mid_over_two == FixedDecimal_div(FixedDecimal_add(arch, Unwrap(best_bid).price,
                                                          Unwrap(best_ask).price), TWO)
        mid_price == IF two_sided THEN mid_over_two.raw ELSE ZERO
        bid_value == zip_value(arch, bid_sizes, bid_prices)
        ask_value == zip_value(arch, ask_sizes, ask_prices)
        total_value == FixedDecimal_add(arch, bid_value, ask_value)
        imbalance_ratio == FixedDecimal_div(FixedDecimal_sub(bid_value, ask_value), total_value)
        spread == IF two_sided
                  THEN FixedDecimal_sub(Unwrap(best_ask).price, Unwrap(best_bid).price)
                  ELSE ZERO
        spread_ratio == FixedDecimal_div(spread, mid_price)
        buy_ratio == FixedDecimal_div(
                         FixedDecimal_sub(ask_prices[Len(ask_prices)], mid_price), mid_price)
        sell_ratio == FixedDecimal_div(
                          FixedDecimal_sub(mid_price, bid_prices[Len(bid_prices)]), mid_price)
    IN  IF \/ two_sided /\ mid_over_two.panic
           \/ total_value > ZERO /\ imbalance_ratio.panic
           \/ mid_price > ZERO /\ spread_ratio.panic
           \/ ask_prices # <<>> /\ buy_ratio.panic
           \/ bid_prices # <<>> /\ sell_ratio.panic
        THEN MetricsPanic
        ELSE [panic |-> FALSE,
              quote_imbalance |-> IF total_value > ZERO THEN imbalance_ratio.raw ELSE ZERO,
              mid_price |-> mid_price,
              spread |-> spread,
              spread_percentage |->
                  IF mid_price > ZERO THEN FixedDecimal_mul(spread_ratio.raw, ONE_HUNDRED)
                  ELSE ZERO,
              price_impact_buy |->
                  IF ask_prices # <<>> THEN FixedDecimal_mul(buy_ratio.raw, ONE_HUNDRED)
                  ELSE ZERO,
              price_impact_sell |->
                  IF bid_prices # <<>> THEN FixedDecimal_mul(sell_ratio.raw, ONE_HUNDRED)
                  ELSE ZERO]

(***************************************************************************)
(* Buffer<N, V>: buf is the boxed array, slots 0..N-1; oob records that a  *)
(* copy wrote past slot N-1 (memory outside the allocation).  The const    *)
(* generic N is the first parameter of new; a buffer's N is the length of  *)
(* its array.                                                              *)
(***************************************************************************)
Buffer_new(n, is_bid) ==
    [buf |-> [i \in 0..(n - 1) |-> Level_bound(is_bid)],
     limit |-> IF is_bid THEN V_MIN ELSE V_MAX,
     len |-> 0,
     cached_first |-> None,
     oob |-> FALSE]

\* the N of a Buffer<N, V>
capacity(b) == Cardinality(DOMAIN b.buf)

get_unchecked(b, index) == b.buf[index]

invalidate_cache(b) ==
    [b EXCEPT !.cached_first =
        IF b.len > 0
        THEN IF get_unchecked(b, 0).price # b.limit THEN Some(get_unchecked(b, 0)) ELSE None
        ELSE None]

\* ptr::copy(buf + src, buf + dst, count): a memmove inside the array; the
\* part of the destination range at or beyond slot N lies outside the array.
ptr_copy(b, src, dst, count) ==
    [b EXCEPT !.buf = [i \in DOMAIN b.buf |->
                          IF i >= dst /\ i < dst + count THEN b.buf[i - dst + src] ELSE b.buf[i]],
              !.oob = b.oob \/ (count > 0 /\ dst + count > capacity(b))]

\* level at which find_index switches to the branchless search
BRANCHLESS_MIN_LEN == 32

Found(i) == [ok |-> TRUE, idx |-> i]
NotFound(i) == [ok |-> FALSE, idx |-> i]

RECURSIVE binary_search_loop(_, _, _, _, _)
binary_search_loop(b, price, is_bid, left, right) ==
    IF left < right
    THEN LET mid == left + (right - left) \div 2
             level_price == get_unchecked(b, mid).price
         IN  IF price = level_price THEN Found(mid)
             ELSE IF price > level_price /\ is_bid
                  THEN binary_search_loop(b, price, is_bid, left, mid)
             ELSE IF price < level_price /\ ~is_bid
                  THEN binary_search_loop(b, price, is_bid, left, mid)
             ELSE binary_search_loop(b, price, is_bid, mid + 1, right)
    ELSE NotFound(left)

RECURSIVE branchless_loop(_, _, _, _, _)
branchless_loop(b, price, is_bid, size, left) ==
    IF size > 1
    THEN LET half == size \div 2
             mid == left + half
             level_price == get_unchecked(b, mid).price
             newleft == IF (is_bid /\ price < level_price) \/ (~is_bid /\ price > level_price)
                        THEN mid ELSE left
         IN  branchless_loop(b, price, is_bid, size - half, newleft)
    ELSE left

\* a branchless search that reports the last better slot as the insertion index
branchless_binary_search_off_by_one(b, price, is_bid) ==
    LET left == branchless_loop(b, price, is_bid, b.len, 0)
    IN  IF get_unchecked(b, left).price = price THEN Found(left) ELSE NotFound(left)

branchless_binary_search(b, price, is_bid) ==
    LET left == branchless_loop(b, price, is_bid, b.len, 0)
    IN  IF get_unchecked(b, left).price = price THEN Found(left) ELSE NotFound(left + 1)

\* find_index that places a price worse than every level before the last one
find_index_before_last(b, price, is_bid) ==
    IF b.len = 0 THEN NotFound(0)
    ELSE IF is_bid /\ price > get_unchecked(b, 0).price THEN NotFound(0)
    ELSE IF is_bid /\ price < get_unchecked(b, b.len - 1).price THEN NotFound(b.len - 1)
    ELSE IF ~is_bid /\ price < get_unchecked(b, 0).price THEN NotFound(0)
    ELSE IF ~is_bid /\ price > get_unchecked(b, b.len - 1).price THEN NotFound(b.len - 1)
    ELSE IF b.len >= BRANCHLESS_MIN_LEN THEN branchless_binary_search(b, price, is_bid)
    ELSE binary_search_loop(b, price, is_bid, 0, b.len)

find_index(b, price, is_bid) ==
    IF b.len = 0 THEN NotFound(0)
    ELSE IF is_bid /\ price > get_unchecked(b, 0).price THEN NotFound(0)
    ELSE IF is_bid /\ price < get_unchecked(b, b.len - 1).price THEN NotFound(b.len)
    ELSE IF ~is_bid /\ price < get_unchecked(b, 0).price THEN NotFound(0)
    ELSE IF ~is_bid /\ price > get_unchecked(b, b.len - 1).price THEN NotFound(b.len)
    ELSE IF b.len >= BRANCHLESS_MIN_LEN THEN branchless_binary_search(b, price, is_bid)
    ELSE binary_search_loop(b, price, is_bid, 0, b.len)

\* move_back that leaves the vacated last slot as it was
move_back_keeps_last(b, start) ==
    IF b.len = 0 THEN b
    ELSE IF start >= b.len - 1
    THEN invalidate_cache([b EXCEPT !.len = b.len - 1])
    ELSE LET moved == ptr_copy(b, start + 1, start, b.len - start - 1)
             shrunk == [moved EXCEPT !.len = b.len - 1]
         IN  IF start = 0 THEN invalidate_cache(shrunk) ELSE shrunk

move_back(b, start) ==
    IF b.len = 0 THEN b
    ELSE IF start >= b.len - 1
    THEN invalidate_cache([b EXCEPT !.buf[b.len - 1] = Level_bound(b.limit = V_MIN),
                                    !.len = b.len - 1])
    ELSE LET moved == ptr_copy(b, start + 1, start, b.len - start - 1)
             shrunk == [moved EXCEPT !.buf[b.len - 1] = Level_bound(b.limit = V_MIN),
                                     !.len = b.len - 1]
         IN  IF start = 0 THEN invalidate_cache(shrunk) ELSE shrunk

\* remove that clears the slot and leaves len and the cached first level alone
remove_in_place(b, index) ==
    [buffer |-> [b EXCEPT !.buf[index] = Level_bound(b.limit = V_MIN)],
     removed |-> get_unchecked(b, index).price]

\* remove that reads the price after it has cleared the slot
remove_reads_cleared(b, index) ==
    LET is_min == b.limit = V_MIN
        cleared == [b EXCEPT !.buf[index] = Level_bound(is_min)]
    IN  [buffer |-> move_back(cleared, index), removed |-> get_unchecked(cleared, index).price]

\* remove returns the removed price together with the buffer
remove(b, index) ==
    LET is_min == b.limit = V_MIN
        removed == get_unchecked(b, index).price
        cleared == [b EXCEPT !.buf[index] = Level_bound(is_min)]
    IN  [buffer |-> move_back(cleared, index), removed |-> removed]

first(b) == b.cached_first

Min(x, y) == IF x < y THEN x ELSE y

\* insert that writes the slot without shifting the levels behind it
insert_no_shift(b, index, level) ==
    IF index >= capacity(b) THEN b
    ELSE IF index = b.len
    THEN invalidate_cache([b EXCEPT !.buf[b.len] = level, !.len = b.len + 1])
    ELSE invalidate_cache([b EXCEPT !.buf[index] = level, !.len = Min(b.len + 1, capacity(b))])

insert(b, index, level) ==
    IF index >= capacity(b) THEN b
    ELSE IF index = b.len
    THEN invalidate_cache([b EXCEPT !.buf[b.len] = level, !.len = b.len + 1])
    ELSE IF index = 0
    THEN LET moved == ptr_copy(b, 0, 1, b.len)
         IN  invalidate_cache([moved EXCEPT !.buf[0] = level, !.len = Min(b.len + 1, capacity(b))])
    ELSE LET moved == ptr_copy(b, index, index + 1, b.len - index)
             written == [moved EXCEPT !.buf[index] = level, !.len = Min(b.len + 1, capacity(b))]
         IN  IF index = 0 THEN invalidate_cache(written) ELSE written

\* modify that forgets to refresh the cached first level
modify_no_refresh(b, index, size) == [b EXCEPT !.buf[index].size = size]

modify(b, index, size) ==
    LET written == [b EXCEPT !.buf[index].size = size]
    IN  IF index = 0 THEN invalidate_cache(written) ELSE written

(***************************************************************************)
(* ArrayOrderbook<N, V>.                                                   *)
(***************************************************************************)
ArrayOrderbook_new(n) ==
    [best_bid |-> None, best_ask |-> None,
     bids |-> Buffer_new(n, TRUE), asks |-> Buffer_new(n, FALSE),
     ts |-> 0, sequence_id |-> 0, has_moved |-> FALSE]

\* the (buffer, best_price) pair selected by an event's side, and its write-back
side_buffer(book, side) == IF side = "Buy" THEN book.bids ELSE book.asks
side_best(book, side) == IF side = "Buy" THEN book.best_bid ELSE book.best_ask
with_side(book, side, buffer, best) ==
    IF side = "Buy"
    THEN [book EXCEPT !.bids = buffer, !.best_bid = best]
    ELSE [book EXCEPT !.asks = buffer, !.best_ask = best]

process_lvl2(book, event) ==
    LET buffer == side_buffer(book, event.side)
        best_price == side_best(book, event.side)
        found == find_index(buffer, event.price, is_buy(event.side))
    IN  IF event.size = ZERO
        THEN IF found.ok
             THEN LET r == remove(buffer, found.idx)
                  IN  IF IsSome(best_price) /\ r.removed = Unwrap(best_price).price
                      THEN [with_side(book, event.side, r.buffer, first(r.buffer))
                               EXCEPT !.has_moved = TRUE]
                      ELSE with_side(book, event.side, r.buffer, best_price)
             ELSE book
        ELSE IF found.ok
             THEN LET modified == modify(buffer, found.idx, event.size)
                  IN  with_side(book, event.side, modified,
                                IF found.idx = 0 THEN first(modified) ELSE best_price)
             ELSE LET inserted == insert(buffer, found.idx, to_level(event))
                  IN  with_side(book, event.side, inserted,
                                IF found.idx = 0 THEN first(inserted) ELSE best_price)

\* a trade handler that consumes the opposite side of the book
Array_process_trade_opposite(book, event) ==
    LET side == IF event.side = "Buy" THEN "Sell" ELSE "Buy"
        buffer == side_buffer(book, side)
        best_price == side_best(book, side)
        found == find_index(buffer, event.price, is_buy(side))
    IN  IF found.ok
        THEN LET index == found.idx
                 level == get_unchecked(buffer, index)
                 after == IF event.size >= level.size
                          THEN remove(buffer, index).buffer
                          ELSE modify(buffer, index, event.size)
             IN  with_side(book, side, after,
                           IF index = 0 THEN first(after) ELSE best_price)
        ELSE book

Array_process_trade(book, event) ==
    LET buffer == side_buffer(book, event.side)
        best_price == side_best(book, event.side)
        found == find_index(buffer, event.price, is_buy(event.side))
    IN  IF found.ok
        THEN LET index == found.idx
                 level == get_unchecked(buffer, index)
                 after == IF event.size >= level.size
                          THEN remove(buffer, index).buffer
                          ELSE modify(buffer, index, event.size)
             IN  with_side(book, event.side, after,
                           IF index = 0 THEN first(after) ELSE best_price)
        ELSE book

\* the condition under which the while-let loop of process_bbo runs its body
sweep_condition(buffer, event) ==
    /\ IsSome(first(buffer))
    /\ \/ is_buy(event.side) /\ Unwrap(first(buffer)).price > event.price
       \/ ~is_buy(event.side) /\ Unwrap(first(buffer)).price < event.price

\* the while-let loop of process_bbo: drop levels strictly better than the quote
RECURSIVE bbo_sweep(_, _)
bbo_sweep(buffer, event) ==
    IF IsSome(first(buffer))
       /\ ((is_buy(event.side) /\ Unwrap(first(buffer)).price > event.price)
           \/ (~is_buy(event.side) /\ Unwrap(first(buffer)).price < event.price))
    THEN bbo_sweep(remove(buffer, 0).buffer, event)
    ELSE buffer

\* a quote handler that also sweeps the levels of the opposite side that the
\* quote has gone through
Array_process_bbo_sweeps_both(book, event) ==
    LET swept == bbo_sweep(side_buffer(book, event.side), event)
        found == find_index(swept, event.price, is_buy(event.side))
        quoted == IF event.size = ZERO
                  THEN IF found.ok THEN remove(swept, found.idx).buffer ELSE swept
                  ELSE IF found.ok
                       THEN modify(swept, found.idx, event.size)
                       ELSE insert(swept, found.idx, to_level(event))
        other == IF event.side = "Buy" THEN "Sell" ELSE "Buy"
        crossed == bbo_sweep(side_buffer(book, other), [event EXCEPT !.side = other])
    IN  with_side(with_side(book, event.side, quoted, first(quoted)),
                  other, crossed, first(crossed))

Array_process_bbo(book, event) ==
    LET swept == bbo_sweep(side_buffer(book, event.side), event)
        found == find_index(swept, event.price, is_buy(event.side))
        quoted == IF event.size = ZERO
                  THEN IF found.ok THEN remove(swept, found.idx).buffer ELSE swept
                  ELSE IF found.ok
                       THEN modify(swept, found.idx, event.size)
                       ELSE insert(swept, found.idx, to_level(event))
    IN  with_side(book, event.side, quoted, first(quoted))

\* a gate that refuses a sequence id equal to the watermark
Array_sequence_gate_strict(book, event) ==
    \/ event.sequence_id = 0
    \/ book.sequence_id = 0
    \/ event.sequence_id > book.sequence_id

\* the sequence gate of ArrayOrderbook::process
Array_sequence_gate(book, event) ==
    \/ event.sequence_id = 0
    \/ book.sequence_id = 0
    \/ event.sequence_id = book.sequence_id
    \/ event.sequence_id > book.sequence_id

\* process reaches the match: the old-event return is not taken and the gate is open
Array_admits(book, event) ==
    ~(event.timestamp < book.ts) /\ Array_sequence_gate(book, event)

\* a watermark that also takes an unsequenced event's 0
Array_next_sequence_id_always(book, event) == event.sequence_id

\* the watermark ArrayOrderbook::process stores on admission
Array_next_sequence_id(book, event) ==
    IF event.sequence_id # 0 THEN event.sequence_id ELSE book.sequence_id

\* the match on event.kind in ArrayOrderbook::process
Array_dispatch(book, event) ==
    CASE event.kind = "Trade" -> Array_process_trade(book, event)
      [] event.kind = "BBO" -> Array_process_bbo(book, event)
      [] event.kind = "L2" -> process_lvl2(book, event)

\* process that stores the timestamp before it looks at the sequence gate
Array_process_ts_early(book, event) ==
    IF event.timestamp < book.ts THEN book
    ELSE IF Array_sequence_gate(book, event)
    THEN Array_dispatch([book EXCEPT !.ts = event.timestamp,
                                     !.sequence_id = Array_next_sequence_id(book, event)],
                        event)
    ELSE [book EXCEPT !.ts = event.timestamp]

Array_process(book, event) ==
    IF event.timestamp < book.ts THEN book
    ELSE IF Array_sequence_gate(book, event)
    THEN Array_dispatch([book EXCEPT !.ts = event.timestamp,
                                     !.sequence_id = Array_next_sequence_id(book, event)],
                        event)
    ELSE book

\* best_bid that leaves has_moved as it is
Array_best_bid_keeps_flag(book) == book

\* best_bid and best_ask: the book they leave, and the value they return
Array_best_bid(book) == [book EXCEPT !.has_moved = FALSE]
Array_best_bid_value(book) == Array_best_bid(book).best_bid
Array_best_ask(book) == [book EXCEPT !.has_moved = FALSE]
Array_best_ask_value(book) == Array_best_ask(book).best_ask

\* the levels calculate_metrics collects from a side: slot i for every
\* i < depth with i < len
collect(b, depth) == [i \in 1..Min(depth, b.len) |-> get_unchecked(b, i - 1)]

level_sizes(levels) == [i \in 1..Len(levels) |-> levels[i].size]
level_prices(levels) == [i \in 1..Len(levels) |-> levels[i].price]

Array_calculate_metrics(arch, book, depth) ==
    calculate_metrics_internal(arch, book.best_bid, book.best_ask,
        level_sizes(collect(book.bids, depth)), level_sizes(collect(book.asks, depth)),
        level_prices(collect(book.bids, depth)), level_prices(collect(book.asks, depth)))

(***************************************************************************)
(* BTreeOrderBook<V>: a side is a function from its prices to sizes.       *)
(***************************************************************************)
BTreeMap_new == [p \in {} |-> ZERO]
map_remove(book, key) == [p \in (DOMAIN book) \ {key} |-> book[p]]
map_insert(book, key, value) ==
    [p \in (DOMAIN book) \cup {key} |-> IF p = key THEN value ELSE book[p]]
map_retain_le(book, price) == [p \in {q \in DOMAIN book : q <= price} |-> book[p]]
map_retain_ge(book, price) == [p \in {q \in DOMAIN book : q >= price} |-> book[p]]
\* iter().next_back() and iter().next(), mapped to a Level
map_last(book) ==
    IF DOMAIN book = {} THEN None
    ELSE LET k == CHOOSE p \in DOMAIN book : \A q \in DOMAIN book : q <= p
         IN  Some(Level_new(k, book[k]))
map_first(book) ==
    IF DOMAIN book = {} THEN None
    ELSE LET k == CHOOSE p \in DOMAIN book : \A q \in DOMAIN book : q >= p
         IN  Some(Level_new(k, book[k]))

BTreeOrderBook_new ==
    [best_bid |-> None, best_ask |-> None, bids |-> BTreeMap_new, asks |-> BTreeMap_new,
     ts |-> 0, sequence_id |-> 0]

side_map(book, side) == IF side = "Buy" THEN book.bids ELSE book.asks
map_best(side, book) == IF side = "Buy" THEN map_last(book) ELSE map_first(book)
with_side_map(book, side, levels) ==
    IF side = "Buy"
    THEN [book EXCEPT !.bids = levels, !.best_bid = map_best(side, levels)]
    ELSE [book EXCEPT !.asks = levels, !.best_ask = map_best(side, levels)]

process_l2(book, event) ==
    LET marked == [book EXCEPT !.sequence_id = event.sequence_id]
        levels == side_map(marked, event.side)
    IN  with_side_map(marked, event.side,
                      IF event.size = ZERO
                      THEN map_remove(levels, event.price)
                      ELSE map_insert(levels, event.price, event.size))

BTree_process_trade(book, event) ==
    LET levels == side_map(book, event.side)
    IN  with_side_map(book, event.side,
                      IF event.price \in DOMAIN levels
                      THEN IF event.size >= levels[event.price]
                           THEN map_remove(levels, event.price)
                           ELSE [levels EXCEPT ![event.price] = levels[event.price] - event.size]
                      ELSE levels)

\* a quote handler that keeps the levels better than the quote
BTree_process_bbo_no_retain(book, event) ==
    with_side_map(book, event.side,
                  IF event.size = ZERO
                  THEN map_remove(side_map(book, event.side), event.price)
                  ELSE map_insert(side_map(book, event.side), event.price, event.size))

BTree_process_bbo(book, event) ==
    LET retained == IF event.side = "Buy"
                    THEN map_retain_le(book.bids, event.price)
                    ELSE map_retain_ge(book.asks, event.price)
    IN  with_side_map(book, event.side,
                      IF event.size = ZERO
                      THEN map_remove(retained, event.price)
                      ELSE map_insert(retained, event.price, event.size))

\* a gate whose comparison is turned around
BTree_sequence_gate_flipped(book, event) ==
    \/ event.sequence_id = 0
    \/ book.sequence_id = 0
    \/ event.sequence_id = book.sequence_id
    \/ event.sequence_id < book.sequence_id

\* the sequence gate of BTreeOrderBook::process
BTree_sequence_gate(book, event) ==
    \/ event.sequence_id = 0
    \/ book.sequence_id = 0
    \/ event.sequence_id = book.sequence_id
    \/ event.sequence_id > book.sequence_id

\* process reaches the match: the old-event return is not taken and the gate is open
BTree_admits(book, event) ==
    ~(event.timestamp < book.ts) /\ BTree_sequence_gate(book, event)

\* the match on event.kind in BTreeOrderBook::process
BTree_dispatch(book, event) ==
    CASE event.kind = "Trade" -> BTree_process_trade(book, event)
      [] event.kind = "BBO" -> BTree_process_bbo(book, event)
      [] event.kind = "L2" -> process_l2(book, event)

\* process without the early return for old events
BTree_process_no_old_check(book, event) ==
    IF BTree_sequence_gate(book, event)
    THEN BTree_dispatch([book EXCEPT !.ts = event.timestamp], event)
    ELSE book

BTree_process(book, event) ==
    IF event.timestamp < book.ts THEN book
    ELSE IF BTree_sequence_gate(book, event)
    THEN BTree_dispatch([book EXCEPT !.ts = event.timestamp], event)
    ELSE book

\* best_bid and best_ask: the book they leave, and the value they return
BTree_best_bid(book) == book
BTree_best_bid_value(book) == BTree_best_bid(book).best_bid
BTree_best_ask(book) == book
BTree_best_ask_value(book) == BTree_best_ask(book).best_ask

\* bids.iter().rev().take(depth) and asks.iter().take(depth), as levels
RECURSIVE iter_take(_, _, _)
iter_take(levels, side, depth) ==
    IF depth = 0 \/ DOMAIN levels = {} THEN <<>>
    ELSE LET top == Unwrap(map_best(side, levels))
         IN  <<top>> \o iter_take(map_remove(levels, top.price), side, depth - 1)

BTree_calculate_metrics(arch, book, depth) ==
    calculate_metrics_internal(arch, book.best_bid, book.best_ask,
        level_sizes(iter_take(book.bids, "Buy", depth)),
        level_sizes(iter_take(book.asks, "Sell", depth)),
        level_prices(iter_take(book.bids, "Buy", depth)),
        level_prices(iter_take(book.asks, "Sell", depth)))

(***************************************************************************)
(* The state machine: one producer feeds the same events to both books.    *)
(*   array, btree  the two books                                           *)
(*   pc            "ready" between calls; "processed" when process has run *)
(*                 and has not yet returned to the caller; "best_bid" or   *)
(*                 "best_ask" when that observer has run and has not yet   *)
(*                 returned; likewise "find_index", "calculate_metrics"    *)
(*                 and the name of a function of FixedDecimal; "insert"    *)
(*                 or "remove" when that function of Buffer has run;       *)
(*                 "sweep" inside the loop of process_bbo and "swept"      *)
(*                 after it; "reversed_vec" while a ReversedVec is alive   *)
(*   event         the argument of the process call that has just run      *)
(*   before        both books as they were when the running call started   *)
(*   returned      the value the running observer returns, per book        *)
(*   calc          the arguments and the result of the running call of a   *)
(*                 function that leaves the books alone, the state of the  *)
(*                 running loop, or the ReversedVec that is alive          *)
(*   applied       per book, the largest non-zero sequence id among the    *)
(*                 events admitted so far                                  *)
(*   calls         number of process calls made                            *)
(***************************************************************************)
VARIABLES array, btree, pc, event, before, returned, calc, applied, calls

vars == <<array, btree, pc, event, before, returned, calc, applied, calls>>

Prices == 1..MaxPrice
Sizes == 0..MaxSize
Timestamps == 0..MaxTs
SequenceIds == 0..MaxSeq

Events ==
    {with_sequence_id(Event_new(k, s, p, q, t), id) :
        k \in EventKind, s \in Side, p \in Prices, q \in Sizes,
        t \in Timestamps, id \in SequenceIds}

Max(x, y) == IF x > y THEN x ELSE y

Init ==
    /\ array = ArrayOrderbook_new(N)
    /\ btree = BTreeOrderBook_new
    /\ pc = "ready"
    /\ event = None
    /\ before = None
    /\ returned = None
    /\ calc = None
    /\ applied = [array |-> 0, btree |-> 0]
    /\ calls = 0

\* OrderBook::process(e) on both books
ProcessEvent(e) ==
    /\ array' = Array_process(array, e)
    /\ btree' = BTree_process(btree, e)
    /\ pc' = "processed"
    /\ event' = Some(e)
    /\ before' = Some([array |-> array, btree |-> btree, applied |-> applied])
    /\ returned' = None
    /\ calc' = None
    /\ applied' = [array |-> IF Array_admits(array, e)
                             THEN Max(applied.array, e.sequence_id) ELSE applied.array,
                   btree |-> IF BTree_admits(btree, e)
                             THEN Max(applied.btree, e.sequence_id) ELSE applied.btree]
    /\ calls' = calls + 1

\* the producer hands one event of the stream's alphabet to both books
ProcessFrom(alphabet) ==
    /\ pc = "ready"
    /\ calls < MaxEvents
    /\ \E e \in alphabet : ProcessEvent(e)

\* any event
Process == ProcessFrom(Events)

\* a sequenced feed quoting one price: every kind, side, timestamp and sequence id
SequencedEvents ==
    {with_sequence_id(Event_new(k, s, 1, q, t), id) :
        k \in EventKind, s \in Side, q \in {0, 1},
        t \in Timestamps, id \in SequenceIds}

ProcessSequenced == ProcessFrom(SequencedEvents)

\* an unsequenced feed with one timestamp: every kind, side, price and size
UnsequencedEvents ==
    {Event_new(k, s, p, q, 0) : k \in EventKind, s \in Side, p \in Prices, q \in Sizes}

ProcessUnsequenced == ProcessFrom(UnsequencedEvents)

\* the running call returns: its argument, its result and the caller's view
\* of the old state are gone
Return ==
    /\ pc # "ready"
    /\ pc' = "ready"
    /\ event' = None
    /\ before' = None
    /\ returned' = None
    /\ calc' = None
    /\ UNCHANGED <<array, btree, applied, calls>>

\* OrderBook::best_bid on both books
BestBid ==
    /\ pc = "ready"
    /\ array' = Array_best_bid(array)
    /\ btree' = BTree_best_bid(btree)
    /\ pc' = "best_bid"
    /\ before' = Some([array |-> array, btree |-> btree, applied |-> applied])
    /\ returned' = Some([array |-> Array_best_bid_value(array),
                         btree |-> BTree_best_bid_value(btree)])
    /\ UNCHANGED <<event, calc, applied, calls>>

\* OrderBook::best_ask on both books
BestAsk ==
    /\ pc = "ready"
    /\ array' = Array_best_ask(array)
    /\ btree' = BTree_best_ask(btree)
    /\ pc' = "best_ask"
    /\ before' = Some([array |-> array, btree |-> btree, applied |-> applied])
    /\ returned' = Some([array |-> Array_best_ask_value(array),
                         btree |-> BTree_best_ask_value(btree)])
    /\ UNCHANGED <<event, calc, applied, calls>>

Next ==
    \/ Process
    \/ Return
    \/ BestBid
    \/ BestAsk

Spec == Init /\ [][Next]_vars

\* the books under the sequenced one-price feed
NextSequenced ==
    \/ ProcessSequenced
    \/ Return
    \/ BestBid
    \/ BestAsk

SpecSequenced == Init /\ [][NextSequenced]_vars

\* the books under the unsequenced feed
NextUnsequenced ==
    \/ ProcessUnsequenced
    \/ Return
    \/ BestBid
    \/ BestAsk

SpecUnsequenced == Init /\ [][NextUnsequenced]_vars

\* the capacity of the deep book: one slot more than the length at which
\* find_index switches to the branchless search
DeepN == BRANCHLESS_MIN_LEN + 1

\* the books after process(L2(side, k, 1)) for k = 1, ..., count from new
RECURSIVE Array_filled(_, _)
Array_filled(side, count) ==
    IF count = 0 THEN ArrayOrderbook_new(DeepN)
    ELSE Array_process(Array_filled(side, count - 1), Event_new("L2", side, count, 1, 0))

RECURSIVE BTree_filled(_, _)
BTree_filled(side, count) ==
    IF count = 0 THEN BTreeOrderBook_new
    ELSE BTree_process(BTree_filled(side, count - 1), Event_new("L2", side, count, 1, 0))

\* one side of each book holds the prices 1..BRANCHLESS_MIN_LEN, size 1 each
InitDeep ==
    /\ \E side \in Side :
          /\ array = Array_filled(side, BRANCHLESS_MIN_LEN)
          /\ btree = BTree_filled(side, BRANCHLESS_MIN_LEN)
    /\ pc = "ready"
    /\ event = None
    /\ before = None
    /\ returned = None
    /\ calc = None
    /\ applied = [array |-> 0, btree |-> 0]
    /\ calls = BRANCHLESS_MIN_LEN

\* the feed of a deep book: the lowest, the middle and the highest stored
\* price and one price above them all
DeepPrices ==
    {1, BRANCHLESS_MIN_LEN \div 2, BRANCHLESS_MIN_LEN, BRANCHLESS_MIN_LEN + 1}

DeepEvents ==
    {Event_new(k, s, p, q, 0) : k \in EventKind, s \in Side, p \in DeepPrices, q \in {ZERO, 1, 2}}

ProcessDeep ==
    /\ pc = "ready"
    /\ calls < BRANCHLESS_MIN_LEN + MaxDeepEvents
    /\ \E e \in DeepEvents : ProcessEvent(e)

NextDeep ==
    \/ ProcessDeep
    \/ Return
    \/ BestBid
    \/ BestAsk

SpecDeep == InitDeep /\ [][NextDeep]_vars

\* the book of capacity DeepN after process(L2(side, step * k, 1)) for
\* k = 1, ..., count from new: count levels whose prices lie step apart
RECURSIVE Array_spaced(_, _, _)
Array_spaced(side, count, step) ==
    IF count = 0 THEN ArrayOrderbook_new(DeepN)
    ELSE Array_process(Array_spaced(side, count - 1, step),
                       Event_new("L2", side, step * count, 1, 0))

\* prices of the searches: from below the lowest to above the highest stored price
SearchPrices(step) == 0..(step * DeepN + 1)

\* Buffer::find_index(price, is_bid) on a side of 0 to DeepN levels
FindIndex ==
    /\ pc = "ready"
    /\ \E side \in Side, len \in 0..DeepN, step \in {1, 2} :
          LET buffer == side_buffer(Array_spaced(side, len, step), side)
          IN  \E price \in SearchPrices(step) :
                 calc' = Some([buffer |-> buffer, price |-> price, is_bid |-> is_buy(side),
                               result |-> find_index(buffer, price, is_buy(side))])
    /\ pc' = "find_index"
    /\ UNCHANGED <<array, btree, event, before, returned, applied, calls>>

NextSearch ==
    \/ FindIndex
    \/ Return

SpecSearch == Init /\ [][NextSearch]_vars

\* the capacity of the buffers insert and remove are called on
BufferN == N + 2

\* the array book of capacity n after process(L2(side, step * k, 1)) for
\* k = 1, ..., count from new
RECURSIVE Array_ladder(_, _, _, _)
Array_ladder(n, side, count, step) ==
    IF count = 0 THEN ArrayOrderbook_new(n)
    ELSE Array_process(Array_ladder(n, side, count - 1, step),
                       Event_new("L2", side, step * count, 1, 0))

\* the levels handed to Buffer::insert
InsertLevels == {Level_new(p, q) : p \in Prices, q \in 1..MaxSize}

\* Buffer::insert(index, level) on a side that is not full, index <= len
BufferInsert ==
    /\ pc = "ready"
    /\ \E side \in Side, len \in 0..(BufferN - 1), step \in {1, 2} :
          LET buffer == side_buffer(Array_ladder(BufferN, side, len, step), side)
          IN  \E index \in 0..len, level \in InsertLevels :
                 calc' = Some([buffer |-> buffer, index |-> index, level |-> level,
                               is_bid |-> is_buy(side),
                               result |-> insert(buffer, index, level)])
    /\ pc' = "insert"
    /\ UNCHANGED <<array, btree, event, before, returned, applied, calls>>

\* Buffer::remove(index) on a side, index < len
BufferRemove ==
    /\ pc = "ready"
    /\ \E side \in Side, len \in 1..BufferN, step \in {1, 2} :
          LET buffer == side_buffer(Array_ladder(BufferN, side, len, step), side)
          IN  \E index \in 0..(len - 1) :
                 calc' = Some([buffer |-> buffer, index |-> index, is_bid |-> is_buy(side),
                               result |-> remove(buffer, index)])
    /\ pc' = "remove"
    /\ UNCHANGED <<array, btree, event, before, returned, applied, calls>>

NextBuffer ==
    \/ BufferInsert
    \/ BufferRemove
    \/ Return

SpecBuffer == Init /\ [][NextBuffer]_vars

\* the sweep loop of process_bbo, one iteration a step: calc holds the buffer
\* the loop started on, the buffer as it is now, the quote and the number of
\* iterations run
SweepPrices(step) == 0..(step * BufferN + 1)

SweepEnter ==
    /\ pc = "ready"
    /\ \E side \in Side, len \in 0..BufferN, step \in {1, 2} :
          LET buffer == side_buffer(Array_ladder(BufferN, side, len, step), side)
          IN  \E price \in SweepPrices(step) :
                 calc' = Some([start |-> buffer, buffer |-> buffer,
                               event |-> Event_new("BBO", side, price, 1, 0),
                               iterations |-> 0])
    /\ pc' = "sweep"
    /\ UNCHANGED <<array, btree, event, before, returned, applied, calls>>

\* the loop body: buffer.remove(0); the count of iterations is capped one
\* above the capacity
SweepIterate ==
    /\ pc = "sweep"
    /\ sweep_condition(Unwrap(calc).buffer, Unwrap(calc).event)
    /\ Unwrap(calc).iterations <= capacity(Unwrap(calc).start)
    /\ calc' = Some([Unwrap(calc) EXCEPT
                        !.buffer = remove(Unwrap(calc).buffer, 0).buffer,
                        !.iterations = Unwrap(calc).iterations + 1])
    /\ UNCHANGED <<array, btree, pc, event, before, returned, applied, calls>>

\* the loop ends: first() is None, or the break
SweepBreak ==
    /\ pc = "sweep"
    /\ ~sweep_condition(Unwrap(calc).buffer, Unwrap(calc).event)
    /\ pc' = "swept"
    /\ UNCHANGED <<array, btree, event, before, returned, calc, applied, calls>>

SweepReturn == pc = "swept" /\ Return

NextSweep ==
    \/ SweepEnter
    \/ SweepIterate
    \/ SweepBreak
    \/ SweepReturn

SpecSweep == Init /\ [][NextSweep]_vars

\* the loop is sequential code: an iteration or the break that can run, runs
LiveSweep == SpecSweep /\ WF_vars(SweepIterate) /\ WF_vars(SweepBreak)

\* an array book with a slot for every price of the feed: no side ever needs
\* more levels than it has slots
QuoteN == MaxPrice

InitQuotes ==
    /\ array = ArrayOrderbook_new(QuoteN)
    /\ btree = BTreeOrderBook_new
    /\ pc = "ready"
    /\ event = None
    /\ before = None
    /\ returned = None
    /\ calc = None
    /\ applied = [array |-> 0, btree |-> 0]
    /\ calls = 0

\* an unsequenced feed of L2 and BBO events: every side, price and size
QuoteEvents ==
    {Event_new(k, s, p, q, 0) : k \in {"L2", "BBO"}, s \in Side, p \in Prices, q \in Sizes}

ProcessQuotes == ProcessFrom(QuoteEvents)

NextQuotes ==
    \/ ProcessQuotes
    \/ Return

SpecQuotes == InitQuotes /\ [][NextQuotes]_vars

\* a feed of whole prices and of sizes up to the largest decimal
MetricsEvents ==
    {Event_new(k, s, p, q, 0) :
        k \in EventKind, s \in Side, p \in {ONE, TWO, ONE + TWO}, q \in {ZERO, ONE, V_MAX}}

ProcessMetrics == ProcessFrom(MetricsEvents)

MetricsDepths == 0..(N + 1)

\* OrderBook::calculate_metrics(depth) on both books, in either build
CalculateMetrics ==
    /\ pc = "ready"
    /\ \E depth \in MetricsDepths, arch \in TargetArch :
          calc' = Some([depth |-> depth, arch |-> arch,
                        array |-> Array_calculate_metrics(arch, array, depth),
                        btree |-> BTree_calculate_metrics(arch, btree, depth)])
    /\ pc' = "calculate_metrics"
    /\ UNCHANGED <<array, btree, event, before, returned, applied, calls>>

NextMetrics ==
    \/ ProcessMetrics
    \/ Return
    \/ CalculateMetrics

SpecMetrics == Init /\ [][NextMetrics]_vars

\* the raw values the arithmetic is applied to: the ends of the range, the
\* values around half of it, and every value from below -ONE to above ONE
Raws ==
    {V_MIN, V_MIN + 1, V_MAX - 1, V_MAX, V_MAX \div 2 + 1, -(V_MAX \div 2 + 1)}
        \cup (-(SCALE_FACTOR + 2))..(SCALE_FACTOR + 2)

\* exponents from beyond the table of powers of ten to above zero
Exponents == (-(POW10_LEN + 3))..2

Scales == 0..(SCALE + 1)

\* one call of a function of FixedDecimal: its arguments and its result in calc
DecimalAdd ==
    /\ pc = "ready"
    /\ \E a \in Raws, b \in Raws, arch \in TargetArch :
          calc' = Some([a |-> a, b |-> b, arch |-> arch,
                        result |-> Value(FixedDecimal_add(arch, a, b))])
    /\ pc' = "add"
    /\ UNCHANGED <<array, btree, event, before, returned, applied, calls>>

DecimalSub ==
    /\ pc = "ready"
    /\ \E a \in Raws, b \in Raws :
          calc' = Some([a |-> a, b |-> b, result |-> Value(FixedDecimal_sub(a, b))])
    /\ pc' = "sub"
    /\ UNCHANGED <<array, btree, event, before, returned, applied, calls>>

DecimalMul ==
    /\ pc = "ready"
    /\ \E a \in Raws, b \in Raws :
          calc' = Some([a |-> a, b |-> b, result |-> Value(FixedDecimal_mul(a, b))])
    /\ pc' = "mul"
    /\ UNCHANGED <<array, btree, event, before, returned, applied, calls>>

DecimalDiv ==
    /\ pc = "ready"
    /\ \E a \in Raws, b \in Raws :
          calc' = Some([a |-> a, b |-> b, result |-> FixedDecimal_div(a, b)])
    /\ pc' = "div"
    /\ UNCHANGED <<array, btree, event, before, returned, applied, calls>>

DecimalRem ==
    /\ pc = "ready"
    /\ \E a \in Raws, b \in Raws :
          calc' = Some([a |-> a, b |-> b, result |-> FixedDecimal_rem(a, b)])
    /\ pc' = "rem"
    /\ UNCHANGED <<array, btree, event, before, returned, applied, calls>>

WithExponent ==
    /\ pc = "ready"
    /\ \E value \in Raws, exponent \in Exponents, overflow_checks \in BOOLEAN :
          calc' = Some([value |-> value, exponent |-> exponent,
                        overflow_checks |-> overflow_checks,
                        result |-> with_exponent(value, exponent, overflow_checks)])
    /\ pc' = "with_exponent"
    /\ UNCHANGED <<array, btree, event, before, returned, applied, calls>>

\* rescale(first_scale) and then rescale(second_scale) on the same decimal
Rescale ==
    /\ pc = "ready"
    /\ \E raw \in Raws, first_scale \in Scales, second_scale \in Scales :
          calc' = Some([raw |-> raw, first_scale |-> first_scale,
                        second_scale |-> second_scale,
                        once |-> rescale(raw, first_scale),
                        twice |-> rescale(rescale(raw, first_scale), second_scale)])
    /\ pc' = "rescale"
    /\ UNCHANGED <<array, btree, event, before, returned, applied, calls>>

NextDecimal ==
    \/ DecimalAdd
    \/ DecimalSub
    \/ DecimalMul
    \/ DecimalDiv
    \/ DecimalRem
    \/ WithExponent
    \/ Rescale
    \/ Return

SpecDecimal == Init /\ [][NextDecimal]_vars

(***************************************************************************)
(* Views of the state used by the properties.                              *)
(***************************************************************************)
\* the event of the call that has just run, and the books before it
ev == Unwrap(event)
pre == Unwrap(before)
Processed == pc = "processed"

\* the stored levels of a buffer, best first: slots 0..len-1
StoredLevels(b) == [i \in 1..b.len |-> b.buf[i - 1]]

\* the levels of a map side, best first (bids by falling, asks by rising price)
RECURSIVE MapLevels(_, _)
MapLevels(levels, side) ==
    IF DOMAIN levels = {} THEN <<>>
    ELSE LET top == IF side = "Buy"
                    THEN CHOOSE p \in DOMAIN levels : \A q \in DOMAIN levels : q <= p
                    ELSE CHOOSE p \in DOMAIN levels : \A q \in DOMAIN levels : q >= p
         IN  <<Level_new(top, levels[top])>>
             \o MapLevels([p \in (DOMAIN levels) \ {top} |-> levels[p]], side)

FirstN(seq) == IF Len(seq) <= N THEN seq ELSE SubSeq(seq, 1, N)

\* the level stored at a price on a side of the array book, as a set (empty if none)
ArrayLevelsAt(book, side, price) ==
    {side_buffer(book, side).buf[i] :
        i \in {j \in 0..(side_buffer(book, side).len - 1) :
                  side_buffer(book, side).buf[j].price = price}}

\* the admission rule as the specification words it
AdmissionRule(book, e) ==
    /\ e.timestamp >= book.ts
    /\ (e.sequence_id = 0 \/ book.sequence_id = 0 \/ e.sequence_id >= book.sequence_id)

(***************************************************************************)
(* C1: for every event stream from the empty state the two books agree,    *)
(* after every event, on best_bid, on best_ask and on the first N levels   *)
(* (price and size, best first) of each side.                              *)
(***************************************************************************)
C1_BooksAgree ==
    /\ array.best_bid = btree.best_bid
    /\ array.best_ask = btree.best_ask
    /\ StoredLevels(array.bids) = FirstN(MapLevels(btree.bids, "Buy"))
    /\ StoredLevels(array.asks) = FirstN(MapLevels(btree.asks, "Sell"))

(***************************************************************************)
(* C2: after every process call, in both books, best_bid is present        *)
(* exactly when the bid side holds a level and is then the stored bid      *)
(* level of highest price; best_ask likewise is the stored ask level of    *)
(* lowest price.                                                           *)
(***************************************************************************)
ArrayBestIsTop(best, b, is_bid) ==
    /\ IsSome(best) <=> b.len > 0
    /\ IsSome(best) =>
          /\ \E i \in 0..(b.len - 1) : b.buf[i] = Unwrap(best)
          /\ \A i \in 0..(b.len - 1) :
                IF is_bid THEN b.buf[i].price <= Unwrap(best).price
                          ELSE b.buf[i].price >= Unwrap(best).price

MapBestIsTop(best, levels, is_bid) ==
    /\ IsSome(best) <=> DOMAIN levels # {}
    /\ IsSome(best) =>
          /\ Unwrap(best).price \in DOMAIN levels
          /\ Unwrap(best).size = levels[Unwrap(best).price]
          /\ \A p \in DOMAIN levels :
                IF is_bid THEN p <= Unwrap(best).price ELSE p >= Unwrap(best).price

C3_TradeDecrements ==
    (Processed /\ ev.kind = "Trade" /\ Array_admits(pre.array, ev)) =>
        \A L \in ArrayLevelsAt(pre.array, ev.side, ev.price) :
            IF ev.size >= L.size
            THEN ArrayLevelsAt(array, ev.side, ev.price) = {}
            ELSE ArrayLevelsAt(array, ev.side, ev.price) =
                    {Level_new(ev.price, L.size - ev.size)}

(***************************************************************************)
(* C4: in both books process(event) admits the event (stores its timestamp *)
(* in ts and applies the update of its kind) if and only if                *)
(* event.timestamp >= ts and (event.sequence_id = 0 or the book's          *)
(* sequence_id = 0 or event.sequence_id >= the book's sequence_id);        *)
(* otherwise the book is left as it was.                                   *)
(***************************************************************************)
C4_AdmissionRule ==
    Processed =>
        /\ IF AdmissionRule(pre.array, ev)
           THEN /\ array.ts = ev.timestamp
                /\ array = Array_dispatch(
                      [pre.array EXCEPT !.ts = ev.timestamp,
                                        !.sequence_id = array.sequence_id], ev)
           ELSE array = pre.array
        /\ IF AdmissionRule(pre.btree, ev)
           THEN /\ btree.ts = ev.timestamp
                /\ btree = BTree_dispatch([pre.btree EXCEPT !.ts = ev.timestamp], ev)
           ELSE btree = pre.btree

\* an event whose sequence id equals the watermark was admitted by both books
\* and changed the bids of both
C4_Witness ==
    /\ Processed
    /\ ev.sequence_id # 0
    /\ ev.sequence_id = pre.array.sequence_id
    /\ ev.sequence_id = pre.btree.sequence_id
    /\ array.ts = ev.timestamp
    /\ array.bids # pre.array.bids
    /\ btree.bids # pre.btree.bids

(***************************************************************************)
(* C5: in both books, when the book's sequence_id is non-zero, a process   *)
(* call with 0 < event.sequence_id < sequence_id changes nothing (levels,  *)
(* cached bests, ts, sequence_id, has_moved), whatever the kind and the    *)
(* timestamp.                                                              *)
(***************************************************************************)
C5_StaleSequenceDropped ==
    Processed =>
        /\ (ev.sequence_id > 0 /\ ev.sequence_id < pre.array.sequence_id) => array = pre.array
        /\ (ev.sequence_id > 0 /\ ev.sequence_id < pre.btree.sequence_id) => btree = pre.btree

\* a stale sequence id arrived with a timestamp above ts, at a price that holds a level
C5_Witness ==
    /\ Processed
    /\ ev.sequence_id > 0
    /\ ev.sequence_id < pre.array.sequence_id
    /\ ev.sequence_id < pre.btree.sequence_id
    /\ ev.timestamp > pre.array.ts
    /\ ev.timestamp > pre.btree.ts
    /\ ArrayLevelsAt(pre.array, ev.side, ev.price) # {}
    /\ ev.price \in DOMAIN side_map(pre.btree, ev.side)

(***************************************************************************)
(* C6: in both books a process call with event.timestamp < ts changes      *)
(* nothing: levels, cached bests, ts, sequence_id and has_moved keep their *)
(* values, whatever the kind, side, size and sequence id.                  *)
(***************************************************************************)
C6_OldTimestampDropped ==
    Processed =>
        /\ ev.timestamp < pre.array.ts => array = pre.array
        /\ ev.timestamp < pre.btree.ts => btree = pre.btree

\* an old event that the sequence gate would let through, at a price that holds a level
C6_Witness ==
    /\ Processed
    /\ ev.timestamp < pre.array.ts
    /\ ev.timestamp < pre.btree.ts
    /\ ev.sequence_id >= pre.array.sequence_id
    /\ ev.sequence_id >= pre.btree.sequence_id
    /\ ArrayLevelsAt(pre.array, ev.side, ev.price) # {}
    /\ ev.price \in DOMAIN side_map(pre.btree, ev.side)

(***************************************************************************)
(* C7: in the array book every admitted event with a non-zero sequence id  *)
(* sets sequence_id to that id, every admitted event with sequence id 0    *)
(* leaves sequence_id unchanged while its update is applied; sequence_id   *)
(* never decreases and, once non-zero, never returns to 0.                 *)
(***************************************************************************)
C7_ArrayWatermark ==
    Processed =>
        /\ (AdmissionRule(pre.array, ev) /\ ev.sequence_id # 0) =>
              array.sequence_id = ev.sequence_id
        /\ (AdmissionRule(pre.array, ev) /\ ev.sequence_id = 0) =>
              /\ array.sequence_id = pre.array.sequence_id
              /\ array = Array_dispatch([pre.array EXCEPT !.ts = ev.timestamp], ev)
        /\ array.sequence_id >= pre.array.sequence_id
        /\ pre.array.sequence_id # 0 => array.sequence_id # 0

\* an unsequenced event changed the bids of a book whose watermark is set
C7_Witness ==
    /\ Processed
    /\ ev.sequence_id = 0
    /\ pre.array.sequence_id # 0
    /\ array.sequence_id = pre.array.sequence_id
    /\ array.bids # pre.array.bids

(***************************************************************************)
(* C8: in the map book every admitted event of any kind with a non-zero    *)
(* sequence id sets sequence_id to that id, and every admitted event with  *)
(* sequence id 0 (an L2 event included) leaves sequence_id unchanged.      *)
(***************************************************************************)
C8_BTreeWatermark ==
    Processed =>
        /\ (BTree_admits(pre.btree, ev) /\ ev.sequence_id # 0) =>
              btree.sequence_id = ev.sequence_id
        /\ (BTree_admits(pre.btree, ev) /\ ev.sequence_id = 0) =>
              btree.sequence_id = pre.btree.sequence_id

(***************************************************************************)
(* C9: in both books the non-zero sequence ids of the admitted events are  *)
(* non-decreasing: no event with non-zero id k is applied after an event   *)
(* with a larger non-zero id has been applied.                             *)
(***************************************************************************)
C9_AppliedIdsMonotonic ==
    Processed =>
        /\ (Array_admits(pre.array, ev) /\ ev.sequence_id # 0) =>
              ev.sequence_id >= pre.applied.array
        /\ (BTree_admits(pre.btree, ev) /\ ev.sequence_id # 0) =>
              ev.sequence_id >= pre.applied.btree

\* the array book's half of C9
C9_ArrayAppliedIdsMonotonic ==
    (Processed /\ Array_admits(pre.array, ev) /\ ev.sequence_id # 0) =>
        ev.sequence_id >= pre.applied.array

(***************************************************************************)
(* C10: in both books ts never decreases; after every admitted event ts is *)
(* that event's timestamp; an event rejected by the sequence gate leaves   *)
(* ts unchanged even when its timestamp is larger than ts.                 *)
(***************************************************************************)
C10_TimestampWatermark ==
    Processed =>
        /\ array.ts >= pre.array.ts
        /\ btree.ts >= pre.btree.ts
        /\ AdmissionRule(pre.array, ev) => array.ts = ev.timestamp
        /\ AdmissionRule(pre.btree, ev) => btree.ts = ev.timestamp
        /\ (ev.timestamp >= pre.array.ts /\ ~AdmissionRule(pre.array, ev)) =>
              array.ts = pre.array.ts
        /\ (ev.timestamp >= pre.btree.ts /\ ~AdmissionRule(pre.btree, ev)) =>
              btree.ts = pre.btree.ts

\* the sequence gate of both books rejected an event with a larger timestamp
C10_Witness ==
    /\ Processed
    /\ ev.timestamp > pre.array.ts
    /\ ev.timestamp > pre.btree.ts
    /\ ~AdmissionRule(pre.array, ev)
    /\ ~AdmissionRule(pre.btree, ev)
    /\ array.ts = pre.array.ts
    /\ btree.ts = pre.btree.ts

(***************************************************************************)
(* C11: after any sequence of process calls whose events have size >= 0    *)
(* (Trade events of size 0 included), every level stored on either side of *)
(* either book has size > 0.                                               *)
(***************************************************************************)
ArraySizesPositive(b) == \A i \in 0..(b.len - 1) : b.buf[i].size > ZERO

MapSizesPositive(levels) == \A p \in DOMAIN levels : levels[p] > ZERO

C11_SizesPositive ==
    /\ ArraySizesPositive(array.bids)
    /\ ArraySizesPositive(array.asks)
    /\ MapSizesPositive(btree.bids)
    /\ MapSizesPositive(btree.asks)

\* the map book's half of C11
C11_MapSizesPositive ==
    /\ MapSizesPositive(btree.bids)
    /\ MapSizesPositive(btree.asks)

(***************************************************************************)
(* C12: after every process call on the array book the stored bid levels   *)
(* [0..len) are strictly decreasing in price and the stored ask levels     *)
(* strictly increasing, so no price appears twice on a side; for every     *)
(* buffer length, sides of 32 or more levels included.                     *)
(***************************************************************************)
StrictlySorted(b, is_bid) ==
    \A i \in 0..(b.len - 2) :
        IF is_bid THEN b.buf[i].price > b.buf[i + 1].price
                  ELSE b.buf[i].price < b.buf[i + 1].price

C12_ArraySorted ==
    /\ StrictlySorted(array.bids, TRUE)
    /\ StrictlySorted(array.asks, FALSE)

(***************************************************************************)
(* C13: after every process call, in both books, whenever best_bid and     *)
(* best_ask are both present, best_bid.price < best_ask.price, for every   *)
(* stream of L2, Trade and BBO events.                                     *)
(***************************************************************************)
Crossed(book) ==
    /\ IsSome(book.best_bid)
    /\ IsSome(book.best_ask)
    /\ Unwrap(book.best_bid).price >= Unwrap(book.best_ask).price

QuotesThrough(book, e) ==
    \/ e.side = "Buy" /\ IsSome(book.best_ask) /\ e.price >= Unwrap(book.best_ask).price
    \/ e.side = "Sell" /\ IsSome(book.best_bid) /\ e.price <= Unwrap(book.best_bid).price

LevelsAt(levels, price) == SelectSeq(levels, LAMBDA l : l.price = price)
LevelsBut(levels, price) == SelectSeq(levels, LAMBDA l : l.price # price)

ArraySide(book, side) == StoredLevels(side_buffer(book, side))
MapSide(book, side) == MapLevels(side_map(book, side), side)

C14_L2Upsert ==
    (Processed /\ ev.kind = "L2" /\ ev.size > ZERO) =>
        /\ (/\ Array_admits(pre.array, ev)
            /\ \/ LevelsAt(ArraySide(pre.array, ev.side), ev.price) # <<>>
               \/ side_buffer(pre.array, ev.side).len < capacity(side_buffer(pre.array, ev.side)))
           => /\ LevelsAt(ArraySide(array, ev.side), ev.price) = <<to_level(ev)>>
              /\ LevelsBut(ArraySide(array, ev.side), ev.price)
                    = LevelsBut(ArraySide(pre.array, ev.side), ev.price)
        /\ BTree_admits(pre.btree, ev)
           => /\ LevelsAt(MapSide(btree, ev.side), ev.price) = <<to_level(ev)>>
              /\ LevelsBut(MapSide(btree, ev.side), ev.price)
                    = LevelsBut(MapSide(pre.btree, ev.side), ev.price)

(***************************************************************************)
(* C15: in both books an admitted L2(side, p, 0) removes the level at      *)
(* price p from that side if one exists, leaves every other level          *)
(* unchanged and the cached best of the side equal to the new first level  *)
(* (absent if the side became empty); if no level at p exists, the levels  *)
(* and cached bests of both sides are unchanged.                           *)
(***************************************************************************)
\* the first level of a sequence of levels, as an Option
Head_of(levels) == IF levels = <<>> THEN None ELSE Some(Head(levels))

OtherSide(side) == IF side = "Buy" THEN "Sell" ELSE "Buy"

L2Removed(side_after, best_after, side_before, price) ==
    /\ LevelsAt(side_after, price) = <<>>
    /\ LevelsBut(side_after, price) = LevelsBut(side_before, price)
    /\ best_after = Head_of(side_after)

C15_L2Remove ==
    (Processed /\ ev.kind = "L2" /\ ev.size = ZERO) =>
        /\ Array_admits(pre.array, ev) =>
              /\ L2Removed(ArraySide(array, ev.side), side_best(array, ev.side),
                           ArraySide(pre.array, ev.side), ev.price)
              /\ ArraySide(array, OtherSide(ev.side)) = ArraySide(pre.array, OtherSide(ev.side))
              /\ side_best(array, OtherSide(ev.side)) = side_best(pre.array, OtherSide(ev.side))
              /\ LevelsAt(ArraySide(pre.array, ev.side), ev.price) = <<>> =>
                    /\ ArraySide(array, ev.side) = ArraySide(pre.array, ev.side)
                    /\ side_best(array, ev.side) = side_best(pre.array, ev.side)
        /\ BTree_admits(pre.btree, ev) =>
              /\ L2Removed(MapSide(btree, ev.side), side_best(btree, ev.side),
                           MapSide(pre.btree, ev.side), ev.price)
              /\ MapSide(btree, OtherSide(ev.side)) = MapSide(pre.btree, OtherSide(ev.side))
              /\ side_best(btree, OtherSide(ev.side)) = side_best(pre.btree, OtherSide(ev.side))
              /\ LevelsAt(MapSide(pre.btree, ev.side), ev.price) = <<>> =>
                    /\ MapSide(btree, ev.side) = MapSide(pre.btree, ev.side)
                    /\ side_best(btree, ev.side) = side_best(pre.btree, ev.side)

(***************************************************************************)
(* C16: in both books, after an admitted BBO(side, p, s) with s > 0, that  *)
(* side holds no level strictly better than p (no bid above p for Buy, no  *)
(* ask below p for Sell), holds a level at price p with size s, and the    *)
(* cached best of that side is (p, s).                                     *)
(***************************************************************************)
Quoted(levels, best, e) ==
    /\ \A i \in 1..Len(levels) :
          IF e.side = "Buy" THEN levels[i].price <= e.price ELSE levels[i].price >= e.price
    /\ \E i \in 1..Len(levels) : levels[i] = to_level(e)
    /\ best = Some(to_level(e))

C16_BBOQuote ==
    (Processed /\ ev.kind = "BBO" /\ ev.size > ZERO) =>
        /\ Array_admits(pre.array, ev) =>
              Quoted(ArraySide(array, ev.side), side_best(array, ev.side), ev)
        /\ BTree_admits(pre.btree, ev) =>
              Quoted(MapSide(btree, ev.side), side_best(btree, ev.side), ev)

(***************************************************************************)
(* C17: in both books an admitted Trade at a price where the event's side  *)
(* holds no level leaves the bids, the asks, best_bid and best_ask         *)
(* unchanged; only ts and, for a non-zero id, the sequence watermark may   *)
(* advance.                                                                *)
(***************************************************************************)
C17_TradeAtEmptyPrice ==
    (Processed /\ ev.kind = "Trade") =>
        /\ (/\ Array_admits(pre.array, ev)
            /\ LevelsAt(ArraySide(pre.array, ev.side), ev.price) = <<>>)
           => /\ array = [pre.array EXCEPT !.ts = array.ts, !.sequence_id = array.sequence_id]
              /\ array.ts >= pre.array.ts
              /\ array.sequence_id # pre.array.sequence_id => ev.sequence_id # 0
        /\ (/\ BTree_admits(pre.btree, ev)
            /\ LevelsAt(MapSide(pre.btree, ev.side), ev.price) = <<>>)
           => /\ btree = [pre.btree EXCEPT !.ts = btree.ts, !.sequence_id = btree.sequence_id]
              /\ btree.ts >= pre.btree.ts
              /\ btree.sequence_id # pre.btree.sequence_id => ev.sequence_id # 0

\* an admitted, sequenced Trade found no level on its side while the other
\* side holds one at its price, and moved ts and the array book's watermark
C17_Witness ==
    /\ Processed
    /\ ev.kind = "Trade"
    /\ Array_admits(pre.array, ev)
    /\ BTree_admits(pre.btree, ev)
    /\ LevelsAt(ArraySide(pre.array, ev.side), ev.price) = <<>>
    /\ LevelsAt(MapSide(pre.btree, ev.side), ev.price) = <<>>
    /\ LevelsAt(ArraySide(pre.array, OtherSide(ev.side)), ev.price) # <<>>
    /\ array.ts > pre.array.ts
    /\ array.sequence_id > pre.array.sequence_id
    /\ ArraySide(array, OtherSide(ev.side)) = ArraySide(pre.array, OtherSide(ev.side))

(***************************************************************************)
(* C18: for every reachable book state and every price p at which the      *)
(* event's side holds no level, an admitted L2(side, p, s) with s > 0      *)
(* followed by an admitted L2(side, p, 0) returns the bids, the asks,      *)
(* best_bid and best_ask to their values before the pair; also on an array *)
(* side that already holds N levels.                                       *)
(***************************************************************************)
\* the levels and cached bests of a book
ArrayQuotes(book) ==
    <<ArraySide(book, "Buy"), ArraySide(book, "Sell"), book.best_bid, book.best_ask>>
MapQuotes(book) ==
    <<MapSide(book, "Buy"), MapSide(book, "Sell"), book.best_bid, book.best_ask>>

\* the pair of events, unsequenced and stamped with the book's ts, so both are admitted
L2Insert(side, p, s, ts) == Event_new("L2", side, p, s, ts)
L2Delete(side, p, ts) == Event_new("L2", side, p, ZERO, ts)

C18_L2RoundTrip ==
    pc = "ready" =>
        \A side \in Side, p \in Prices, s \in 1..MaxSize :
            /\ LevelsAt(ArraySide(array, side), p) = <<>> =>
                  ArrayQuotes(Array_process(Array_process(array, L2Insert(side, p, s, array.ts)),
                                            L2Delete(side, p, array.ts)))
                     = ArrayQuotes(array)
            /\ LevelsAt(MapSide(btree, side), p) = <<>> =>
                  MapQuotes(BTree_process(BTree_process(btree, L2Insert(side, p, s, btree.ts)),
                                          L2Delete(side, p, btree.ts)))
                     = MapQuotes(btree)

\* the map book's half of C18
C18_MapL2RoundTrip ==
    pc = "ready" =>
        \A side \in Side, p \in Prices, s \in 1..MaxSize :
            LevelsAt(MapSide(btree, side), p) = <<>> =>
                MapQuotes(BTree_process(BTree_process(btree, L2Insert(side, p, s, btree.ts)),
                                        L2Delete(side, p, btree.ts)))
                   = MapQuotes(btree)

(***************************************************************************)
(* C19: in the array book has_moved is true exactly when a cached best     *)
(* (best_bid or best_ask) has been replaced by some process call since the *)
(* last call to best_bid() or best_ask(): every admitted L2, Trade or BBO  *)
(* event that changes a cached best sets has_moved, and has_moved is false *)
(* otherwise.                                                              *)
(***************************************************************************)
BestReplaced(after, earlier) ==
    after.best_bid # earlier.best_bid \/ after.best_ask # earlier.best_ask

C19_HasMoved ==
    /\ Processed =>
          (array.has_moved <=> (pre.array.has_moved \/ BestReplaced(array, pre.array)))
    /\ pc \in {"best_bid", "best_ask"} => ~array.has_moved

(***************************************************************************)
(* C20: best_bid() and best_ask() of the array book return the current     *)
(* cached best level of their side, set has_moved to false, and leave the  *)
(* levels of both sides, both cached bests, ts and sequence_id unchanged.  *)
(***************************************************************************)
C20_Observers ==
    /\ pc = "best_bid" =>
          /\ Unwrap(returned).array = pre.array.best_bid
          /\ array = [pre.array EXCEPT !.has_moved = FALSE]
    /\ pc = "best_ask" =>
          /\ Unwrap(returned).array = pre.array.best_ask
          /\ array = [pre.array EXCEPT !.has_moved = FALSE]

\* best_bid() returned a level and cleared a has_moved that was set
C20_Witness ==
    /\ pc = "best_bid"
    /\ pre.array.has_moved
    /\ IsSome(Unwrap(returned).array)
    /\ ~array.has_moved

(***************************************************************************)
(* C21: after any sequence of process calls on an array book each of its   *)
(* two buffers satisfies 0 <= len <= N, slots [0..len) hold real levels    *)
(* (price different from the side's sentinel) and slots [len..N) hold      *)
(* exactly the side's sentinel level (price MIN for bids, MAX for asks,    *)
(* size 0).                                                                *)
(***************************************************************************)
SentinelPadded(b, is_bid) ==
    /\ 0 <= b.len
    /\ b.len <= capacity(b)
    /\ \A i \in 0..(b.len - 1) : b.buf[i].price # Level_bound(is_bid).price
    /\ \A i \in b.len..(capacity(b) - 1) : b.buf[i] = Level_bound(is_bid)

search == Unwrap(calc)
Searched == pc = "find_index"

C22_FindStored ==
    Searched =>
        /\ \A i \in 0..(search.buffer.len - 1) :
              search.buffer.buf[i].price = search.price => search.result = Found(i)
        /\ search.buffer.len >= BRANCHLESS_MIN_LEN =>
              search.result = binary_search_loop(search.buffer, search.price, search.is_bid,
                                                 0, search.buffer.len)

(***************************************************************************)
(* C23: for every sorted buffer of length 0 <= len <= N (below and at or   *)
(* above 32) and every price not stored in it, find_index(price, is_bid)   *)
(* returns Err(i) with 0 <= i <= len such that every level before index i  *)
(* is strictly better than price and every level from index i on is        *)
(* strictly worse: inserting at i keeps the side strictly sorted.          *)
(***************************************************************************)
Better(is_bid, p, q) == IF is_bid THEN p > q ELSE p < q

C23_FindInsertionIndex ==
    (Searched /\ \A i \in 0..(search.buffer.len - 1) : search.buffer.buf[i].price # search.price)
    =>  /\ ~search.result.ok
        /\ 0 <= search.result.idx
        /\ search.result.idx <= search.buffer.len
        /\ \A i \in 0..(search.result.idx - 1) :
              Better(search.is_bid, search.buffer.buf[i].price, search.price)
        /\ \A i \in search.result.idx..(search.buffer.len - 1) :
              Better(search.is_bid, search.price, search.buffer.buf[i].price)

\* the branchless search placed a price between two stored levels of a long side
C23_Witness ==
    /\ Searched
    /\ search.buffer.len >= BRANCHLESS_MIN_LEN
    /\ ~search.result.ok
    /\ search.result.idx > 1
    /\ search.result.idx < search.buffer.len - 1
    /\ Better(search.is_bid, search.buffer.buf[search.result.idx - 1].price, search.price)
    /\ Better(search.is_bid, search.price, search.buffer.buf[search.result.idx].price)

(***************************************************************************)
(* C24: calculate_metrics(depth) completes without a division by zero on   *)
(* every reachable book and every depth, one-sided books included:         *)
(* price_impact_buy is ZERO unless the asks are non-empty and mid_price is *)
(* positive, and price_impact_sell is ZERO unless the bids are non-empty   *)
(* and mid_price is positive.                                              *)
(***************************************************************************)
metrics == Unwrap(calc)
Calculated == pc = "calculate_metrics"

ImpactRule(m, bids_empty, asks_empty) ==
    /\ ~m.panic
    /\ (asks_empty \/ ~(m.mid_price > ZERO)) => m.price_impact_buy = ZERO
    /\ (bids_empty \/ ~(m.mid_price > ZERO)) => m.price_impact_sell = ZERO

C24_MetricsNeverDivideByZero ==
    Calculated =>
        /\ ImpactRule(metrics.array,
                      Min(metrics.depth, array.bids.len) = 0,
                      Min(metrics.depth, array.asks.len) = 0)
        /\ ImpactRule(metrics.btree,
                      metrics.depth = 0 \/ DOMAIN btree.bids = {},
                      metrics.depth = 0 \/ DOMAIN btree.asks = {})

(***************************************************************************)
(* C25: for every book whose stored levels all have a positive price and a *)
(* positive size, and every depth, the quote_imbalance calculate_metrics   *)
(* returns is (bid_value - ask_value) / (bid_value + ask_value) over the   *)
(* top depth levels of each side, lies in [-1, 1], and is ZERO when the    *)
(* total value is not positive.                                            *)
(***************************************************************************)
LevelsPositive(levels) ==
    \A i \in 1..Len(levels) : levels[i].price > ZERO /\ levels[i].size > ZERO

Top(levels, depth) == SubSeq(levels, 1, Min(depth, Len(levels)))

\* the value of a side: the saturating sum of size * price over its levels
RECURSIVE SideValue(_)
SideValue(levels) ==
    IF levels = <<>> THEN ZERO
    ELSE saturating(SideValue(SubSeq(levels, 1, Len(levels) - 1))
                    + FixedDecimal_mul(levels[Len(levels)].size, levels[Len(levels)].price))

ImbalanceRule(m, bid_levels, ask_levels) ==
    LET bid_value == SideValue(bid_levels)
        ask_value == SideValue(ask_levels)
        total == saturating(bid_value + ask_value)
    IN  /\ total > ZERO =>
              m.quote_imbalance
                  = FixedDecimal_div(FixedDecimal_sub(bid_value, ask_value), total).raw
        /\ ~(total > ZERO) => m.quote_imbalance = ZERO
        /\ -ONE <= m.quote_imbalance /\ m.quote_imbalance <= ONE

C25_QuoteImbalance ==
    Calculated =>
        /\ (/\ LevelsPositive(StoredLevels(array.bids))
            /\ LevelsPositive(StoredLevels(array.asks))
            /\ ~metrics.array.panic)
              => ImbalanceRule(metrics.array, Top(StoredLevels(array.bids), metrics.depth),
                               Top(StoredLevels(array.asks), metrics.depth))
        /\ (/\ LevelsPositive(MapLevels(btree.bids, "Buy"))
            /\ LevelsPositive(MapLevels(btree.asks, "Sell"))
            /\ ~metrics.btree.panic)
              => ImbalanceRule(metrics.btree, Top(MapLevels(btree.bids, "Buy"), metrics.depth),
                               Top(MapLevels(btree.asks, "Sell"), metrics.depth))

(***************************************************************************)
(* C26: addition and subtraction saturate: a + b has the raw value         *)
(* clamp(a.raw + b.raw, MIN, MAX) and a - b has clamp(a.raw - b.raw, MIN,  *)
(* MAX); neither wraps around on overflow.                                 *)
(***************************************************************************)
call == Unwrap(calc)

Clamp(x) == IF x < V_MIN THEN V_MIN ELSE IF x > V_MAX THEN V_MAX ELSE x

C26_AddSubSaturate ==
    /\ pc = "add" => call.result.raw = Clamp(call.a + call.b)
    /\ pc = "sub" => call.result.raw = Clamp(call.a - call.b)

(***************************************************************************)
(* C27: for all a and b, MIN and MAX included, a * b has the raw value     *)
(* (a.raw * b.raw) / SCALE_FACTOR, computed exactly, truncated toward zero *)
(* and clamped to [MIN, MAX]; the short cuts for a ZERO or ONE operand     *)
(* return what that formula gives.                                         *)
(***************************************************************************)
C27_MulExact ==
    pc = "mul" => call.result.raw = Clamp(TruncDiv(call.a * call.b, SCALE_FACTOR))

(***************************************************************************)
(* C28: a / b and a % b panic only when b is ZERO: for every b with a      *)
(* non-zero raw value, MIN included, and every a, MIN included, a / b      *)
(* returns (a.raw * SCALE_FACTOR) / b.raw truncated toward zero and        *)
(* clamped to [MIN, MAX].                                                  *)
(***************************************************************************)
C28_DivRemPanicOnlyOnZero ==
    /\ pc \in {"div", "rem"} => (call.result.panic => call.b = ZERO)
    /\ (pc = "div" /\ call.b # ZERO) =>
          /\ ~call.result.panic
          /\ call.result.raw = Clamp(TruncDiv(call.a * SCALE_FACTOR, call.b))

(***************************************************************************)
(* C29: for every v, positive or negative, and every exponent e,           *)
(* with_exponent(v, e) has the raw value v * 10^(SCALE + e), truncated     *)
(* toward zero when digits are dropped, saturated to MAX on positive and   *)
(* to MIN on negative overflow.                                            *)
(***************************************************************************)
Scaled(v, e) ==
    IF SCALE + e >= 0 THEN Clamp(v * 10^(SCALE + e))
    ELSE TruncDiv(v, 10^(-(SCALE + e)))

C29_WithExponent ==
    pc = "with_exponent" =>
        /\ ~call.result.panic
        /\ call.result.raw = Scaled(call.value, call.exponent)

(***************************************************************************)
(* C30: rescale(k) with 0 <= k < SCALE replaces raw by raw truncated       *)
(* toward zero to a multiple of 10^(SCALE - k), for positive and negative  *)
(* values alike, so rescale(a) followed by rescale(b) with b <= a gives    *)
(* what rescale(b) alone gives; rescale(k) with k >= SCALE leaves the      *)
(* value unchanged.                                                        *)
(***************************************************************************)
\* t is raw truncated toward zero to a multiple of unit
Truncated(t, raw, unit) ==
    /\ t % unit = 0
    /\ Abs(t) <= Abs(raw)
    /\ Abs(raw) - Abs(t) < unit
    /\ t > 0 => raw > 0
    /\ t < 0 => raw < 0

C31_InsertInBounds == ~array.bids.oob /\ ~array.asks.oob

(***************************************************************************)
(* C32: Buffer::insert(i, level) with i <= len < N yields a buffer of      *)
(* length len + 1 whose slot i is level, whose slots [0..i) are unchanged  *)
(* and whose former slots [i..len) sit at [i+1..len+1) in the same order;  *)
(* afterwards first() is slot 0.                                           *)
(***************************************************************************)
C32_Insert ==
    pc = "insert" =>
        LET b == call.buffer
            r == call.result
            i == call.index
        IN  /\ r.len = b.len + 1
            /\ r.buf[i] = call.level
            /\ \A j \in 0..(i - 1) : r.buf[j] = b.buf[j]
            /\ \A j \in i..(b.len - 1) : r.buf[j + 1] = b.buf[j]
            /\ first(r) = Some(r.buf[0])

\* an insert strictly inside the stored levels has run
C32_Witness ==
    /\ pc = "insert"
    /\ 0 < call.index
    /\ call.index < call.buffer.len
    /\ call.buffer.len < capacity(call.buffer)

(***************************************************************************)
(* C33: Buffer::remove(i) with i < len returns the price that was stored   *)
(* at slot i, leaves slots [0..i) unchanged, moves former slots [i+1..len) *)
(* to [i..len-1) in the same order, writes the side's sentinel at former   *)
(* slot len-1, decrements len by exactly one, and afterwards first() is    *)
(* the new slot 0, absent if len became 0.                                 *)
(***************************************************************************)
C33_Remove ==
    pc = "remove" =>
        LET b == call.buffer
            r == call.result.buffer
            i == call.index
        IN  /\ call.result.removed = b.buf[i].price
            /\ \A j \in 0..(i - 1) : r.buf[j] = b.buf[j]
            /\ \A j \in (i + 1)..(b.len - 1) : r.buf[j - 1] = b.buf[j]
            /\ r.buf[b.len - 1] = Level_bound(call.is_bid)
            /\ r.len = b.len - 1
            /\ first(r) = IF r.len = 0 THEN None ELSE Some(r.buf[0])

\* a remove strictly inside the stored levels has run
C33_Witness ==
    /\ pc = "remove"
    /\ 0 < call.index
    /\ call.index < call.buffer.len - 1

(***************************************************************************)
(* C34: when a side of the array book holds N levels, an admitted L2 event *)
(* with size > 0 at a new price worse than every stored level (sorted      *)
(* position N) is a no-op on the book: that side's N levels and its cached *)
(* best are unchanged, and the other side is unchanged.                    *)
(***************************************************************************)
\* the side of the event is full and the event's price is worse than all of it
PastFullSide(book, e) ==
    /\ side_buffer(book, e.side).len = capacity(side_buffer(book, e.side))
    /\ \A i \in 1..Len(ArraySide(book, e.side)) :
          Better(is_buy(e.side), ArraySide(book, e.side)[i].price, e.price)

C34_FullSideNoOp ==
    (/\ Processed
     /\ ev.kind = "L2"
     /\ ev.size > ZERO
     /\ Array_admits(pre.array, ev)
     /\ PastFullSide(pre.array, ev))
        => /\ array.bids = pre.array.bids
           /\ array.asks = pre.array.asks
           /\ array.best_bid = pre.array.best_bid
           /\ array.best_ask = pre.array.best_ask

\* an L2 event past the end of a full side has been processed
C34_Witness ==
    /\ Processed
    /\ ev.kind = "L2"
    /\ ev.size > ZERO
    /\ Array_admits(pre.array, ev)
    /\ PastFullSide(pre.array, ev)

(***************************************************************************)
(* C35: in both books, after an admitted BBO(side, p, 0), that side holds  *)
(* no level at price p and no level strictly better than p, every level    *)
(* worse than p is unchanged, and the cached best of that side is the best *)
(* remaining level, or absent if none remains.                             *)
(***************************************************************************)
\* the levels of a sequence strictly worse than a price, for a side
WorseThan(levels, side, price) ==
    SelectSeq(levels, LAMBDA l : Better(side = "Buy", price, l.price))

QuoteRemoved(side_after, best_after, side_before, e) ==
    /\ side_after = WorseThan(side_before, e.side, e.price)
    /\ best_after = Head_of(side_after)

C35_BBORemove ==
    (Processed /\ ev.kind = "BBO" /\ ev.size = ZERO) =>
        /\ Array_admits(pre.array, ev) =>
              QuoteRemoved(ArraySide(array, ev.side), side_best(array, ev.side),
                           ArraySide(pre.array, ev.side), ev)
        /\ BTree_admits(pre.btree, ev) =>
              QuoteRemoved(MapSide(btree, ev.side), side_best(btree, ev.side),
                           MapSide(pre.btree, ev.side), ev)

Sweeping == pc \in {"sweep", "swept"}

\* one level less per iteration, at most len iterations, and at the end the
\* buffer process_bbo goes on with
SweepProgress ==
    Sweeping =>
        /\ call.buffer.len = call.start.len - call.iterations
        /\ call.iterations <= call.start.len
        /\ first(call.buffer) = IF call.buffer.len = 0 THEN None
                                ELSE Some(get_unchecked(call.buffer, 0))
        /\ pc = "swept" => call.buffer = bbo_sweep(call.start, call.event)

C37_SweepTerminates ==
    /\ []SweepProgress
    /\ (pc = "sweep") ~> (pc = "swept")

\* the loop has ended after removing several levels and keeping some
C37_Witness ==
    /\ pc = "swept"
    /\ call.iterations >= 2
    /\ call.buffer.len >= 1

(***************************************************************************)
(* C38: for any stream of L2 and BBO events with sequence id 0 and size    *)
(* >= 0 in which neither side ever needs more than N levels, N < 32, the   *)
(* array book and the map book hold identical levels (price and size, best *)
(* first) on both sides and identical best_bid and best_ask after every    *)
(* event.                                                                  *)
(***************************************************************************)
C38_QuoteStreamsAgree ==
    /\ ArraySide(array, "Buy") = MapSide(btree, "Buy")
    /\ ArraySide(array, "Sell") = MapSide(btree, "Sell")
    /\ side_best(array, "Buy") = side_best(btree, "Buy")
    /\ side_best(array, "Sell") = side_best(btree, "Sell")

\* a quote has swept levels off a side that held several, and a level remains
C38_Witness ==
    /\ Processed
    /\ ev.kind = "BBO"
    /\ Len(ArraySide(pre.array, ev.side)) >= 2
    /\ Len(ArraySide(array, ev.side)) < Len(ArraySide(pre.array, ev.side))
    /\ Len(ArraySide(array, ev.side)) >= 1

(***************************************************************************)
(* ReversedVec<N, V>: the same record as a Buffer.  new(is_reversed) fills *)
(* the array with Level::bound(!is_reversed); move_back and remove write   *)
(* Level::bound(self.limit == V::MAX) into the slots they free.            *)
(***************************************************************************)
ReversedVec_new(n, is_reversed) ==
    [buf |-> [i \in 0..(n - 1) |-> Level_bound(~is_reversed)],
     limit |-> IF is_reversed THEN V_MAX ELSE V_MIN,
     len |-> 0,
     cached_first |-> None,
     oob |-> FALSE]

ReversedVec_invalidate_cache(b) ==
    [b EXCEPT !.cached_first =
        IF b.len > 0
        THEN IF get_unchecked(b, 0).price # b.limit THEN Some(get_unchecked(b, 0)) ELSE None
        ELSE None]

ReversedVec_move_back(b, start) ==
    IF b.len = 0 THEN b
    ELSE IF start >= b.len - 1
    THEN ReversedVec_invalidate_cache(
             [b EXCEPT !.buf[b.len - 1] = Level_bound(b.limit = V_MAX), !.len = b.len - 1])
    ELSE LET moved == ptr_copy(b, start + 1, start, b.len - start - 1)
             shrunk == [moved EXCEPT !.buf[b.len - 1] = Level_bound(b.limit = V_MAX),
                                     !.len = b.len - 1]
         IN  IF start = 0 THEN ReversedVec_invalidate_cache(shrunk) ELSE shrunk

\* remove returns the removed price together with the vec
ReversedVec_remove(b, index) ==
    LET is_reversed == b.limit = V_MAX
        removed == get_unchecked(b, index).price
        cleared == [b EXCEPT !.buf[index] = Level_bound(is_reversed)]
    IN  [buffer |-> ReversedVec_move_back(cleared, index), removed |-> removed]

ReversedVec_insert(b, index, level) ==
    IF index >= capacity(b) THEN b
    ELSE IF index = b.len
    THEN ReversedVec_invalidate_cache([b EXCEPT !.buf[b.len] = level, !.len = b.len + 1])
    ELSE IF index = 0
    THEN LET moved == ptr_copy(b, 0, 1, b.len)
         IN  ReversedVec_invalidate_cache(
                 [moved EXCEPT !.buf[0] = level, !.len = Min(b.len + 1, capacity(b))])
    ELSE LET moved == ptr_copy(b, index, index + 1, b.len - index)
             written == [moved EXCEPT !.buf[index] = level, !.len = Min(b.len + 1, capacity(b))]
         IN  IF index = 0 THEN ReversedVec_invalidate_cache(written) ELSE written

\* a ReversedVec lives in calc from its construction until it is dropped:
\* the vec, the flag it was constructed with and the number of insert and
\* remove calls made on it
ReversedNew ==
    /\ pc = "ready"
    /\ \E is_reversed \in BOOLEAN :
          calc' = Some([vec |-> ReversedVec_new(N, is_reversed),
                        is_reversed |-> is_reversed, ops |-> 0])
    /\ pc' = "reversed_vec"
    /\ UNCHANGED <<array, btree, event, before, returned, applied, calls>>

\* ReversedVec::insert(index, level), index <= len
ReversedInsert ==
    /\ pc = "reversed_vec"
    /\ Unwrap(calc).ops < MaxEvents
    /\ \E index \in 0..Unwrap(calc).vec.len, level \in InsertLevels :
          calc' = Some([Unwrap(calc) EXCEPT !.vec = ReversedVec_insert(@, index, level),
                                            !.ops = @ + 1])
    /\ UNCHANGED <<array, btree, pc, event, before, returned, applied, calls>>

\* ReversedVec::remove(index), index < len
ReversedRemove ==
    /\ pc = "reversed_vec"
    /\ Unwrap(calc).ops < MaxEvents
    /\ \E index \in 0..(Unwrap(calc).vec.len - 1) :
          calc' = Some([Unwrap(calc) EXCEPT !.vec = ReversedVec_remove(@, index).buffer,
                                            !.ops = @ + 1])
    /\ UNCHANGED <<array, btree, pc, event, before, returned, applied, calls>>

\* the vec is dropped
ReversedDrop == pc = "reversed_vec" /\ Return

NextReversed ==
    \/ ReversedNew
    \/ ReversedInsert
    \/ ReversedRemove
    \/ ReversedDrop

SpecReversed == Init /\ [][NextReversed]_vars

(***************************************************************************)
(* C39: in ReversedVec, after any sequence of insert and remove calls,     *)
(* every unused slot [len..N) holds the sentinel level that new() filled   *)
(* the buffer with (price MAX when constructed with is_reversed = true,    *)
(* price MIN otherwise).                                                   *)
(***************************************************************************)
C39_UnusedSlotsKeepSentinel ==
    pc = "reversed_vec" =>
        \A i \in call.vec.len..(capacity(call.vec) - 1) :
            get_unchecked(call.vec, i) = Level_bound(~call.is_reversed)

====
